---- MODULE Spec2Model ----
(***************************************************************************)
(* Model of the route-mismatch explainer of contrib/lib/src/routehint.rs:  *)
(* RoutingDiff::from (method, path_diff, query_diff, media_type_diff),     *)
(* RoutingDiff::print, and the RouteHint fairing (on_attach, on_request).  *)
(*                                                                         *)
(* Text is a sequence of one-character strings.  Rendered text is a        *)
(* sequence of records [c, hl]: a character and the colour it is painted   *)
(* in ("plain", "green", "red").                                           *)
(***************************************************************************)
EXTENDS Integers, Sequences, FiniteSets, TLC

\* ------------------------------------------------------------------ bounds
MaxRouteSegs == 2
MaxReqSegs == 3
MaxRouteQuery == 2
MaxReqItems == 2
MaxHandlers == 2

\* ------------------------------------------------------------ option type
None == [some |-> FALSE]
Some(v) == [some |-> TRUE, v |-> v]

\* ------------------------------------------------------- helpers on text
RECURSIVE Flatten(_)
Flatten(ss) == IF ss = <<>> THEN <<>> ELSE Head(ss) \o Flatten(Tail(ss))

SeqsUpTo(S, n) == UNION {[1..k -> S] : k \in 0..n}

\* UncasedStr: comparison ignores ASCII case
LowerChar(c) ==
    CASE c = "T" -> "t"
      [] c = "X" -> "x"
      [] c = "H" -> "h"
      [] OTHER -> c
Lower(t) == [i \in 1..Len(t) |-> LowerChar(t[i])]
UncasedEq(a, b) == Lower(a) = Lower(b)

\* ---------------------------------------------------- text diff engine
\* Length of a longest common subsequence of the suffixes a[i..], b[j..].
RECURSIVE LcsLen(_, _, _, _)
LcsLen(a, b, i, j) ==
    IF i > Len(a) \/ j > Len(b) THEN 0
    ELSE IF a[i] = b[j] THEN 1 + LcsLen(a, b, i + 1, j + 1)
    ELSE LET x == LcsLen(a, b, i + 1, j)
             y == LcsLen(a, b, i, j + 1)
         IN IF x >= y THEN x ELSE y

\* One character-level edit script: Rem before Add between common characters.
RECURSIVE Script(_, _, _, _)
Script(a, b, i, j) ==
    IF i > Len(a) /\ j > Len(b) THEN <<>>
    ELSE IF i > Len(a) THEN <<[op |-> "Add", s |-> <<b[j]>>]>> \o Script(a, b, i, j + 1)
    ELSE IF j > Len(b) THEN <<[op |-> "Rem", s |-> <<a[i]>>]>> \o Script(a, b, i + 1, j)
    ELSE IF a[i] = b[j] THEN <<[op |-> "Same", s |-> <<a[i]>>]>> \o Script(a, b, i + 1, j + 1)
    ELSE IF LcsLen(a, b, i + 1, j) >= LcsLen(a, b, i, j + 1)
         THEN <<[op |-> "Rem", s |-> <<a[i]>>]>> \o Script(a, b, i + 1, j)
         ELSE <<[op |-> "Add", s |-> <<b[j]>>]>> \o Script(a, b, i, j + 1)

\* Adjacent entries of the same kind are merged into one entry.
RECURSIVE Merge(_)
Merge(ds) ==
    IF Len(ds) <= 1 THEN ds
    ELSE LET rest == Merge(Tail(ds))
         IN IF Head(ds).op = Head(rest).op
            THEN <<[op |-> Head(ds).op, s |-> Head(ds).s \o Head(rest).s]>> \o Tail(rest)
            ELSE <<Head(ds)>> \o rest

\* difference::Changeset::new(orig, edit, ""): the edit script and its distance
Changeset(orig, edit) ==
    [diffs |-> Merge(Script(orig, edit, 1, 1)),
     distance |-> Len(orig) + Len(edit) - 2 * LcsLen(orig, edit, 1, 1)]

\* ------------------------------------------------------------- data model
\* http::route::RouteSegment: the fields the diff reads (kind, string, name).
Static(text) == [kind |-> "Static", string |-> text, name |-> text]
Single(n) == [kind |-> "Single", string |-> n, name |-> n]
Multi(n) == [kind |-> "Multi", string |-> n, name |-> n]

\* request::FormItem: one raw query item "key=value" with its key and value.
FormItem(k, v) == [raw |-> k \o <<"=">> \o v, key |-> k, value |-> v]

\* http::MediaType: top and sub part; to_string gives "top/sub".
MediaType(top, sub) == [top |-> top, sub |-> sub]
MediaTypeText(mt) == mt.top \o <<"/">> \o mt.sub

\* http::Method::to_string
MethodText(m) ==
    CASE m = "GET" -> <<"G", "E", "T">>
      [] m = "POST" -> <<"P", "O", "S", "T">>

\* ------------------------------------------------------------ SegmentDiff
StaticMatch(t) == [tag |-> "StaticMatch", s |-> t]
SingleMatch(n, v) == [tag |-> "SingleMatch", name |-> n, value |-> v]
MultiMatch(n, vs) == [tag |-> "MultiMatch", name |-> n, values |-> vs]
Diff(ds) == [tag |-> "Diff", diffs |-> ds]
Missing(t) == [tag |-> "Missing", s |-> t]
Unexpected(t) == [tag |-> "Unexpected", s |-> t]
\* the unwinding of a failed expect(): not a value the program can hold
Panic == [tag |-> "Panic"]

\* ---------------------------------------------------------- MediaTypeDiff
TrueStatic(t) == [tag |-> "TrueStatic", s |-> t]
TrueDynamic(r, q) == [tag |-> "TrueDynamic", route |-> r, req |-> q]
False(ds) == [tag |-> "False", diffs |-> ds]

\* the parts compared as plain strings, case included
IsMediaTypeMatch_from_cased(route_mt_part, req_mt_part) ==
    IF route_mt_part = req_mt_part
    THEN [tag |-> "TrueStatic", s |-> route_mt_part]
    ELSE IF route_mt_part = <<"*">> \/ req_mt_part = <<"*">>
    THEN [tag |-> "TrueDynamic", route |-> route_mt_part, req |-> req_mt_part]
    ELSE [tag |-> "False", diffs |-> Changeset(req_mt_part, route_mt_part).diffs]

IsMediaTypeMatch_from(route_mt_part, req_mt_part) ==
    IF UncasedEq(route_mt_part, req_mt_part)
    THEN TrueStatic(route_mt_part)
    ELSE IF UncasedEq(route_mt_part, <<"*">>) \/ UncasedEq(req_mt_part, <<"*">>)
    THEN TrueDynamic(route_mt_part, req_mt_part)
    ELSE False(Changeset(req_mt_part, route_mt_part).diffs)

media_type_diff(route, request) ==
    IF route.format.some
    THEN IF request.format.some
         THEN [tag |-> "IsMatch",
               top |-> IsMediaTypeMatch_from(route.format.v.top, request.format.v.top),
               sub |-> IsMediaTypeMatch_from(route.format.v.sub, request.format.v.sub)]
         ELSE [tag |-> "Missing", s |-> MediaTypeText(route.format.v)]
    ELSE IF request.format.some
         THEN [tag |-> "Unexpected", s |-> MediaTypeText(request.format.v)]
         ELSE [tag |-> "None"]

\* --------------------------------------------------------------- path_diff
\* a Static mismatch diffed from the literal to the request segment
path_seg_diff_swapped(route_seg, request_segments, pos) ==
    IF pos <= Len(request_segments)
    THEN LET req_seg == request_segments[pos]
         IN CASE route_seg.kind = "Static" ->
                   IF route_seg.string = req_seg
                   THEN [tag |-> "StaticMatch", s |-> req_seg]
                   ELSE [tag |-> "Diff", diffs |-> Changeset(route_seg.string, req_seg).diffs]
              [] route_seg.kind = "Single" ->
                   [tag |-> "SingleMatch", name |-> route_seg.string, value |-> req_seg]
              [] route_seg.kind = "Multi" ->
                   [tag |-> "MultiMatch", name |-> route_seg.string,
                    values |-> SubSeq(request_segments, pos, Len(request_segments))]
    ELSE [tag |-> "Missing", s |-> route_seg.string]

\* One route segment against the request segment iterator at position pos
\* (pos > Len(request_segments): next() returned None).
path_seg_diff(route_seg, request_segments, pos) ==
    IF pos <= Len(request_segments)
    THEN LET req_seg == request_segments[pos]
         IN CASE route_seg.kind = "Static" ->
                   IF route_seg.string = req_seg
                   THEN StaticMatch(req_seg)
                   ELSE Diff(Changeset(req_seg, route_seg.string).diffs)
              [] route_seg.kind = "Single" ->
                   SingleMatch(route_seg.string, req_seg)
              [] route_seg.kind = "Multi" ->
                   MultiMatch(route_seg.string,
                              SubSeq(request_segments, pos, Len(request_segments)))
    ELSE Missing(route_seg.string)

\* the for loop over route_segments: each iteration calls next() once
RECURSIVE path_loop(_, _, _, _)
path_loop(route_segments, request_segments, i, result) ==
    IF i > Len(route_segments) THEN result
    ELSE path_loop(route_segments, request_segments, i + 1,
                   Append(result, path_seg_diff(route_segments[i], request_segments, i)))

\* the trailing Unexpected entries pushed whatever the last entry is
path_diff_always_unexpected(route, request) ==
    LET n == Len(route.path_segments)
        m == Len(request.segments)
    IN [k \in 1..(IF m > n THEN m ELSE n) |->
          IF k <= n THEN path_seg_diff(route.path_segments[k], request.segments, k)
          ELSE [tag |-> "Unexpected", s |-> request.segments[k]]]

path_diff(route, request) ==
    LET route_segments == route.path_segments
        request_segments == request.segments
        result == path_loop(route_segments, request_segments, 1, <<>>)
        n == Len(route_segments)
    IN IF ~(result # <<>> /\ result[Len(result)].tag = "MultiMatch")
       THEN result \o [k \in 1..(IF Len(request_segments) > n
                                 THEN Len(request_segments) - n ELSE 0)
                       |-> Unexpected(request_segments[n + k])]
       ELSE result

\* -------------------------------------------------------------- query_diff
\* find(): index of the first element whose test is TRUE, 0 if none
find(hits) ==
    IF \E i \in 1..Len(hits) : hits[i]
    THEN CHOOSE i \in 1..Len(hits) : hits[i] /\ \A j \in 1..(i - 1) : ~hits[j]
    ELSE 0

\* a fold that lets a later equal element replace the running minimum
RECURSIVE min_by_fold_last(_, _, _)
min_by_fold_last(cs, best, i) ==
    IF i > Len(cs) THEN best
    ELSE min_by_fold_last(cs, IF best.distance >= cs[i].distance THEN cs[i] ELSE best, i + 1)

RECURSIVE min_by_fold(_, _, _)
min_by_fold(cs, best, i) ==
    IF i > Len(cs) THEN best
    ELSE min_by_fold(cs, IF best.distance > cs[i].distance THEN cs[i] ELSE best, i + 1)
min_by(cs) == IF cs = <<>> THEN None ELSE Some(min_by_fold(cs, cs[1], 2))

\* a Static segment without an exact match reported as Missing
query_seg_diff_static_missing(route_param, req_params, matched_req_params) ==
    LET IsIt(req_param) ==
            IF route_param.kind = "Single" THEN req_param.key = route_param.name
            ELSE route_param.string = req_param.raw
        f == find([k \in 1..Len(req_params) |-> IsIt(req_params[k])])
        Keep(req_param) ==
            \A k \in 1..Len(matched_req_params) : req_param # matched_req_params[k]
    IN CASE route_param.kind = "Multi" ->
              [d |-> [tag |-> "MultiMatch", name |-> route_param.string,
                      values |-> LET kept == SelectSeq(req_params, Keep)
                                 IN [k \in 1..Len(kept) |-> kept[k].raw]],
               matched |-> matched_req_params]
         [] route_param.kind # "Multi" /\ f = 0 ->
              [d |-> [tag |-> "Missing", s |-> route_param.string],
               matched |-> matched_req_params]
         [] route_param.kind = "Static" /\ f # 0 ->
              [d |-> [tag |-> "StaticMatch", s |-> req_params[f].raw],
               matched |-> Append(matched_req_params, req_params[f])]
         [] route_param.kind = "Single" /\ f # 0 ->
              [d |-> [tag |-> "SingleMatch", name |-> route_param.string,
                      value |-> req_params[f].raw],
               matched |-> Append(matched_req_params, req_params[f])]

\* the closure of the map over route_params: the diff of one route query
\* segment and the items it adds to matched_req_params
query_seg_diff(route_param, req_params, matched_req_params) ==
    CASE route_param.kind = "Static" ->
           LET IsIt(req_param) == route_param.string = req_param.raw
               f == find([k \in 1..Len(req_params) |-> IsIt(req_params[k])])
           IN IF f # 0
              THEN [d |-> StaticMatch(req_params[f].raw),
                    matched |-> Append(matched_req_params, req_params[f])]
              ELSE LET m == min_by([k \in 1..Len(req_params) |->
                                     Changeset(req_params[k].raw, route_param.string)])
                   IN [d |-> IF m.some THEN Diff(m.v.diffs) ELSE Panic,
                       matched |-> matched_req_params]
      [] route_param.kind = "Single" ->
           LET IsIt(req_param) == req_param.key = route_param.name
               f == find([k \in 1..Len(req_params) |-> IsIt(req_params[k])])
           IN IF f # 0
              THEN [d |-> SingleMatch(route_param.string, req_params[f].raw),
                    matched |-> Append(matched_req_params, req_params[f])]
              ELSE [d |-> Missing(route_param.string),
                    matched |-> matched_req_params]
      [] route_param.kind = "Multi" ->
           LET Keep(req_param) ==
                   \A k \in 1..Len(matched_req_params) : req_param # matched_req_params[k]
           IN [d |-> MultiMatch(route_param.string,
                                LET kept == SelectSeq(req_params, Keep)
                                IN [k \in 1..Len(kept) |-> kept[k].raw]),
               matched |-> matched_req_params]

RECURSIVE query_loop(_, _, _, _, _)
query_loop(route_params, req_params, i, matched_req_params, result) ==
    IF i > Len(route_params) THEN result
    ELSE LET r == query_seg_diff(route_params[i], req_params, matched_req_params)
         IN query_loop(route_params, req_params, i + 1, r.matched, Append(result, r.d))

query_diff(route, request) ==
    IF route.query_segments.some
    THEN IF request.query_items.some
         THEN query_loop(route.query_segments.v, request.query_items.v, 1, <<>>, <<>>)
         ELSE [k \in 1..Len(route.query_segments.v) |->
                 Missing(route.query_segments.v[k].string)]
    ELSE IF request.query_items.some
         THEN [k \in 1..Len(request.query_items.v) |->
                 Unexpected(request.query_items.v[k].raw)]
         ELSE <<>>

\* ------------------------------------------------------ RoutingDiff::from
RoutingDiff_from(route, request) ==
    [method |-> IF route.method = request.method
                THEN [tag |-> "Same", m |-> route.method]
                ELSE [tag |-> "Change", route |-> route.method, req |-> request.method],
     path_diff |-> path_diff(route, request),
     query |-> query_diff(route, request),
     media_type |-> media_type_diff(route, request)]

\* from() unwinds when a query segment's expect() fails
from_panics(route, request) ==
    \E k \in DOMAIN query_diff(route, request) : query_diff(route, request)[k] = Panic

\* ------------------------------------------------------ RoutingDiff::print
Plain(t) == [i \in 1..Len(t) |-> [c |-> t[i], hl |-> "plain"]]
\* yansi Color::paint: the text wrapped in the colour
Paint(color, t) == [i \in 1..Len(t) |-> [c |-> t[i], hl |-> color]]
\* the rendered text with the colouring removed
Strip(r) == [i \in 1..Len(r) |-> r[i].c]

red == "red"
green == "green"

\* fold over an edit script keeping Same and painting Add (route side)
color_add_diffs(diffs, color) ==
    Flatten([k \in 1..Len(diffs) |->
        CASE diffs[k].op = "Same" -> Plain(diffs[k].s)
          [] diffs[k].op = "Add" -> Paint(color, diffs[k].s)
          [] diffs[k].op = "Rem" -> <<>>])

\* fold over an edit script keeping Same and painting Rem (request side)
rem_diffs_fold(diffs, color) ==
    Flatten([k \in 1..Len(diffs) |->
        CASE diffs[k].op = "Same" -> Plain(diffs[k].s)
          [] diffs[k].op = "Add" -> <<>>
          [] diffs[k].op = "Rem" -> Paint(color, diffs[k].s)])

route_method_text(method) ==
    IF method.tag = "Same" THEN Plain(MethodText(method.m))
    ELSE Paint(green, MethodText(method.route))

request_method_text(method) ==
    IF method.tag = "Same" THEN Plain(MethodText(method.m))
    ELSE Paint(red, MethodText(method.req))

\* what one entry adds to the route side, after the separator sep
route_seg_text(d, sep) ==
    CASE d.tag = "StaticMatch" -> Plain(sep) \o Plain(d.s)
      [] d.tag \in {"SingleMatch", "MultiMatch"} -> Plain(sep) \o Plain(d.name)
      [] d.tag = "Diff" -> Plain(sep) \o color_add_diffs(d.diffs, green)
      [] d.tag = "Missing" -> Plain(sep) \o Paint(green, d.s)
      [] d.tag = "Unexpected" -> <<>>

\* what one entry adds to the request side, after the separator sep
request_seg_text(d, sep) ==
    CASE d.tag = "StaticMatch" -> Plain(sep) \o Plain(d.s)
      [] d.tag = "SingleMatch" -> Plain(sep) \o Plain(d.value)
      [] d.tag = "MultiMatch" ->
           Flatten([k \in 1..Len(d.values) |-> Plain(sep) \o Plain(d.values[k])])
      [] d.tag = "Diff" -> Plain(sep) \o rem_diffs_fold(d.diffs, red)
      [] d.tag = "Missing" -> <<>>
      [] d.tag = "Unexpected" -> Plain(sep) \o Paint(red, d.s)

route_path_text(pd) ==
    LET route_path == Flatten([k \in 1..Len(pd) |-> route_seg_text(pd[k], <<"/">>)])
    IN IF Len(route_path) = 0 THEN Plain(<<"/">>) ELSE route_path

request_path_text(pd) ==
    LET request_path == Flatten([k \in 1..Len(pd) |-> request_seg_text(pd[k], <<"/">>)])
    IN IF Len(request_path) = 0 THEN Plain(<<"/">>) ELSE request_path

route_query_text(qd) ==
    LET route_query == Flatten([k \in 1..Len(qd) |-> route_seg_text(qd[k], <<"&">>)])
    IN IF Len(route_query) > 0 THEN Plain(<<"?">>) \o Tail(route_query) ELSE route_query

request_query_text(qd) ==
    LET request_query == Flatten([k \in 1..Len(qd) |-> request_seg_text(qd[k], <<"&">>)])
    IN IF Len(request_query) > 0 THEN Plain(<<"?">>) \o Tail(request_query) ELSE request_query

route_media_text(media_type) ==
    CASE media_type.tag = "IsMatch" ->
           (CASE media_type.top.tag = "TrueStatic" -> Plain(media_type.top.s)
              [] media_type.top.tag = "TrueDynamic" -> Plain(media_type.top.route)
              [] media_type.top.tag = "False" ->
                   color_add_diffs(media_type.top.diffs, green))
      [] media_type.tag = "Missing" -> Paint(green, media_type.s)
      [] media_type.tag = "Unexpected" -> <<>>
      [] media_type.tag = "None" -> <<>>

\* the two lines print() writes
print(self) ==
    [route_line |-> route_method_text(self.method) \o Plain(<<":", " ">>)
                    \o route_path_text(self.path_diff) \o route_query_text(self.query)
                    \o Plain(<<" ", " ", " ">>) \o route_media_text(self.media_type),
     request_line |-> request_method_text(self.method) \o Plain(<<":", " ">>)
                      \o request_path_text(self.path_diff)
                      \o request_query_text(self.query)]

\* ------------------------------------------- texts of the example routes
T_hello == <<"h", "e", "l", "l", "o">>
T_name == <<"n", "a", "m", "e">>
T_mood == <<"m", "o", "o", "d">>
T_world == <<"w", "o", "r", "l", "d">>
T_happy == <<"h", "a", "p", "p", "y">>
T_guide == <<"g", "u", "i", "d", "e">>
T_topic == <<"_", "t", "o", "p", "i", "c">>
T_something == <<"s", "o", "m", "e", "t", "h", "i", "n", "g", ".", "t", "x", "t">>
T_text == <<"t", "e", "x", "t">>
T_plain == <<"p", "l", "a", "i", "n">>
T_html == <<"h", "t", "m", "l">>
T_path == <<"p", "a", "t", "h">>
T_when == <<"w", "h", "e", "n">>
T_query == <<"q", "u", "e", "r", "y">>
T_now == <<"n", "o", "w">>
T_flag == <<"f", "l", "a", "g">>
T_23 == <<"2", "3">>
T_flag23 == <<"f", "l", "a", "g", "=", "2", "3">>
T_lalelu1 == <<"l", "a", "l", "e", "l", "u", "=", "1">>

\* ------------------------------------------------------------------ state
VARIABLES
    route,          \* RoutingDiff::from: the route argument
    request,        \* RoutingDiff::from: the request argument
    rdiff,          \* the RoutingDiff built by from (None before)
    out,            \* the two lines written by print (None before)
    pc,             \* "new", "built", "panicked", "printed"; "off" in the fairing runs
    rocket_routes,  \* rocket.routes(): the routes mounted on the host
    routes,         \* RouteHint.routes: the Vec inside the Mutex
    lock,           \* holder of the Mutex: Free, HeldByAttach or HeldBy(h)
    attach_pc,      \* on_attach: "loop", "push", "done"
    attach_i,       \* on_attach: position in rocket.routes()
    hpc,            \* on_request per handler: "idle","lock","loop","print","done","panicked"
    hidx,           \* on_request per handler: position in the routes iterator
    hreq,           \* on_request per handler: the request
    hdiff,          \* on_request per handler: routing_diff of the current iteration
    hout            \* on_request per handler: the lines last written by print

diff_vars == <<route, request, rdiff, out, pc>>
hint_vars == <<rocket_routes, routes, lock, attach_pc, attach_i, hpc, hidx, hreq, hdiff, hout>>
vars == <<route, request, rdiff, out, pc,
          rocket_routes, routes, lock, attach_pc, attach_i, hpc, hidx, hreq, hdiff, hout>>

Handlers == 1..MaxHandlers

\* futures::lock::Mutex: who holds the guard
Free == [by |-> "none", h |-> 0]
HeldByAttach == [by |-> "on_attach", h |-> 0]
HeldBy(h) == [by |-> "on_request", h |-> h]

Route(m, ps, qs, f) == [method |-> m, path_segments |-> ps, query_segments |-> qs, format |-> f]
Request(m, ss, qi, f) == [method |-> m, segments |-> ss, query_items |-> qi, format |-> f]

\* ----------------------------------------- the routes of examples/routehint
get_hello ==
    Route("GET", <<Static(T_hello), Single(T_name), Static(T_mood), Single(T_mood)>>, None, None)
get_hello_flag ==
    Route("GET", <<Static(T_hello)>>, Some(<<Static(T_flag23), Static(T_lalelu1)>>), None)
get_index == Route("GET", <<>>, None, None)
get_some_html ==
    Route("GET", <<Static(T_something)>>, None, Some(MediaType(T_text, T_plain)))
get_guide == Route("GET", <<Static(T_guide), Multi(T_topic)>>, None, None)
get_path_and_query ==
    Route("GET", <<Multi(T_path)>>, Some(<<Single(T_when), Multi(T_query)>>), None)

\* requests of the documented examples
req_hello_world == Request("GET", <<T_hello, T_world, T_mood, T_happy>>, None, None)
req_guide_abc == Request("GET", <<T_guide, <<"a">>, <<"b">>, <<"c">>>>, None, None)
req_hello_flag == Request("GET", <<T_hello>>, Some(<<FormItem(T_flag, T_23)>>), None)
req_something == Request("GET", <<T_something>>, None, None)
req_something_html ==
    Request("GET", <<T_something>>, None, Some(MediaType(T_text, T_html)))
\* "/?when=now&when=now": the request repeats an item
req_when_twice ==
    Request("GET", <<>>, Some(<<FormItem(T_when, T_now), FormItem(T_when, T_now)>>), None)
\* "/hello?": a query is present and holds no item
req_hello_empty_query == Request("GET", <<T_hello>>, Some(<<>>), None)

\* -------------------------------------------------------- sampled inputs
PathTexts == {<<"a">>, <<"b">>, <<"a", "b">>}
CaptureNames == {<<"n">>}
InnerPathSegs == {Static(x) : x \in PathTexts} \cup {Single(n) : n \in CaptureNames}
LastPathSegs == InnerPathSegs \cup {Multi(n) : n \in CaptureNames}
\* route paths: a Multi segment, if any, is the last one
RoutePaths ==
    {ps \in SeqsUpTo(LastPathSegs, MaxRouteSegs) :
        \A i \in 1..(Len(ps) - 1) : ps[i].kind # "Multi"}
RequestPaths == SeqsUpTo(PathTexts, MaxReqSegs)

QueryKeys == {<<"f">>, <<"g">>}
QueryValues == {<<"1">>, <<"2">>}
FormItems == {FormItem(k, v) : k \in QueryKeys, v \in QueryValues}
QuerySegs ==
    {Static(x) : x \in {<<"f", "=", "1">>, <<"g", "=", "2">>}}
    \cup {Single(k) : k \in QueryKeys} \cup {Multi(<<"m">>)}
RouteQueries == {None} \cup {Some(q) : q \in SeqsUpTo(QuerySegs, MaxRouteQuery)}
RequestQueries == {None} \cup {Some(q) : q \in SeqsUpTo(FormItems, MaxReqItems)}

MediaParts == {<<"t", "x">>, <<"T", "X">>, <<"h">>, <<"*">>}
Formats == {None} \cup {Some(MediaType(a, b)) : a \in MediaParts, b \in MediaParts}
Methods == {"GET", "POST"}

\* ------------------------------------------------------------------- Init
HintIdle ==
    /\ rocket_routes = <<>>
    /\ routes = <<>>
    /\ lock = Free
    /\ attach_pc = "done"
    /\ attach_i = 1
    /\ hpc = [h \in Handlers |-> "done"]
    /\ hidx = [h \in Handlers |-> 1]
    /\ hreq = [h \in Handlers |-> None]
    /\ hdiff = [h \in Handlers |-> None]
    /\ hout = [h \in Handlers |-> None]

DiffNew ==
    /\ rdiff = None
    /\ out = None
    /\ pc = "new"
    /\ HintIdle

InitPath ==
    /\ \/ /\ route \in {Route("GET", ps, None, None) : ps \in RoutePaths}
          /\ request \in {Request("GET", ss, None, None) : ss \in RequestPaths}
       \/ /\ route \in {get_hello, get_guide, get_index}
          /\ request \in {req_hello_world, req_guide_abc}
    /\ DiffNew

InitQuery ==
    /\ \/ /\ route \in {Route("GET", <<>>, q, None) : q \in RouteQueries}
          /\ request \in {Request("GET", <<>>, q, None) : q \in RequestQueries}
       \/ /\ route = get_hello_flag
          /\ request \in {req_hello_flag, req_hello_empty_query}
       \/ /\ route = get_path_and_query
          /\ request = req_when_twice
    /\ DiffNew

InitMedia ==
    /\ \/ /\ route \in {Route(m, <<>>, None, f) : m \in Methods, f \in Formats}
          /\ request \in {Request(m, <<>>, None, f) : m \in Methods, f \in Formats}
       \/ /\ route = get_some_html
          /\ request \in {req_something, req_something_html}
    /\ DiffNew

\* ---------------------------------------------------------------- actions
\* RoutingDiff::from(route, request)
CallFrom ==
    /\ pc = "new"
    /\ IF from_panics(route, request)
       THEN /\ pc' = "panicked"
            /\ rdiff' = rdiff
       ELSE /\ pc' = "built"
            /\ rdiff' = Some(RoutingDiff_from(route, request))
    /\ UNCHANGED <<route, request, out>>
    /\ UNCHANGED hint_vars

\* routing_diff.print()
CallPrint ==
    /\ pc = "built"
    /\ out' = Some(print(rdiff.v))
    /\ pc' = "printed"
    /\ UNCHANGED <<route, request, rdiff>>
    /\ UNCHANGED hint_vars

NextDiff == CallFrom \/ CallPrint

SpecPath == InitPath /\ [][NextDiff]_vars
SpecQuery == InitQuery /\ [][NextDiff]_vars
SpecMedia == InitMedia /\ [][NextDiff]_vars

\* ------------------------------------------------------ properties: paths
\* the text an edit script was computed from (Same and Rem entries) ...
ScriptOrig(ds) ==
    Flatten([k \in 1..Len(ds) |-> IF ds[k].op \in {"Same", "Rem"} THEN ds[k].s ELSE <<>>])
\* ... and the text it leads to (Same and Add entries)
ScriptEdit(ds) ==
    Flatten([k \in 1..Len(ds) |-> IF ds[k].op \in {"Same", "Add"} THEN ds[k].s ELSE <<>>])
IsScript(ds, orig, edit) ==
    /\ \A k \in 1..Len(ds) : ds[k].op \in {"Same", "Add", "Rem"}
    /\ ScriptOrig(ds) = orig
    /\ ScriptEdit(ds) = edit

\* the entry d stands for the route segment seg
CorrespondsTo(d, seg) ==
    CASE d.tag = "StaticMatch" -> seg.kind = "Static" /\ d.s = seg.string
      [] d.tag = "Diff" -> seg.kind = "Static" /\ ScriptEdit(d.diffs) = seg.string
      [] d.tag = "SingleMatch" -> seg.kind = "Single" /\ d.name = seg.string
      [] d.tag = "MultiMatch" -> seg.kind = "Multi" /\ d.name = seg.string
      [] d.tag = "Missing" -> d.s = seg.string
      [] OTHER -> FALSE

MultiIsLast(r) ==
    \A i \in 1..(Len(r.path_segments) - 1) : r.path_segments[i].kind # "Multi"

\* the last route segment is Multi and the request has a segment at its position
LastMultiMatched(r, q) ==
    /\ r.path_segments # <<>>
    /\ r.path_segments[Len(r.path_segments)].kind = "Multi"
    /\ Len(q.segments) >= Len(r.path_segments)

\* C1: path_diff starts with one entry per route path segment, in order and
\* never Unexpected, followed by exactly one Unexpected per request segment
\* beyond the route's length, in request order; when the last route segment is
\* Multi and was matched there is no Unexpected entry and the MultiMatch holds
\* every request segment from its position onward.
C1_PathDiffShape ==
    (rdiff.some /\ MultiIsLast(route)) =>
        LET pd == rdiff.v.path_diff
            n == Len(route.path_segments)
            m == Len(request.segments)
        IN /\ Len(pd) >= n
           /\ \A i \in 1..n : CorrespondsTo(pd[i], route.path_segments[i])
           /\ IF LastMultiMatched(route, request)
              THEN /\ Len(pd) = n
                   /\ pd[n].tag = "MultiMatch"
                   /\ pd[n].values = SubSeq(request.segments, n, m)
                   /\ \A i \in 1..(n - 1) : pd[i].tag # "MultiMatch"
              ELSE /\ Len(pd) = (IF m > n THEN m ELSE n)
                   /\ \A k \in (n + 1)..m : pd[k] = Unexpected(request.segments[k])

C1_Witness ==
    /\ rdiff.some
    /\ LastMultiMatched(route, request)
    /\ Len(request.segments) > Len(route.path_segments) + 1
    /\ rdiff.v.path_diff[Len(route.path_segments)].tag = "MultiMatch"

\* C2: at position i a Static segment gives StaticMatch(text) when the request
\* segment equals the literal, an edit script from the request segment to the
\* literal when it differs, Missing(literal) when the request has no segment
\* there; a Single segment gives SingleMatch(name, request segment) for any
\* request segment and Missing only when there is none.  The route
\* /hello/<name>/mood/<mood> against /hello/world/mood/happy gives the four
\* matches of the documented example.
C2_StaticAndSingle ==
    rdiff.some =>
        LET pd == rdiff.v.path_diff
            rs == route.path_segments
            qs == request.segments
        IN /\ \A i \in 1..Len(rs) :
                /\ (rs[i].kind = "Static" /\ i <= Len(qs) /\ qs[i] = rs[i].string)
                      => pd[i] = StaticMatch(rs[i].string)
                /\ (rs[i].kind = "Static" /\ i <= Len(qs) /\ qs[i] # rs[i].string)
                      => (pd[i].tag = "Diff" /\ IsScript(pd[i].diffs, qs[i], rs[i].string))
                /\ (rs[i].kind = "Single" /\ i <= Len(qs))
                      => pd[i] = SingleMatch(rs[i].string, qs[i])
                /\ (rs[i].kind \in {"Static", "Single"} /\ i > Len(qs))
                      => pd[i] = Missing(rs[i].string)
           /\ (route = get_hello /\ request = req_hello_world)
                 => pd = <<StaticMatch(T_hello), SingleMatch(T_name, T_world),
                           StaticMatch(T_mood), SingleMatch(T_mood, T_happy)>>

C2_Witness ==
    /\ rdiff.some
    /\ Len(route.path_segments) = 2
    /\ route.path_segments[1].kind = "Static"
    /\ route.path_segments[2].kind = "Single"
    /\ Len(request.segments) = 2
    /\ rdiff.v.path_diff[1].tag = "Diff"
    /\ rdiff.v.path_diff[2].tag = "SingleMatch"

\* ---------------------------------------------------- properties: queries
\* the route's query is two Static segments, the request's query is one item
\* whose raw text equals the first
TwoStaticsOneItem ==
    /\ route.query_segments.some
    /\ Len(route.query_segments.v) = 2
    /\ \A i \in 1..2 : route.query_segments.v[i].kind = "Static"
    /\ request.query_items.some
    /\ Len(request.query_items.v) = 1
    /\ request.query_items.v[1].raw = route.query_segments.v[1].string

\* C3 as stated: two Static segments S1, S2 against the one item S1 give
\* [StaticMatch(S1), Missing(S2)].
C3_SecondStaticMissing ==
    (rdiff.some /\ TwoStaticsOneItem) =>
        rdiff.v.query = <<StaticMatch(route.query_segments.v[1].string),
                          Missing(route.query_segments.v[2].string)>>

\* C3 as amended: two Static segments S1, S2 against the one item S1 give
\* StaticMatch(S1) followed by the edit script from the request item to S2
\* (by StaticMatch(S2) when S2 equals S1); the second entry is never Missing.
C3_SecondStaticDiffed ==
    (rdiff.some /\ TwoStaticsOneItem) =>
        LET S1 == route.query_segments.v[1].string
            S2 == route.query_segments.v[2].string
            qd == rdiff.v.query
        IN /\ Len(qd) = 2
           /\ qd[1] = StaticMatch(S1)
           /\ IF S2 = S1 THEN qd[2] = StaticMatch(S1)
              ELSE qd[2].tag = "Diff" /\ IsScript(qd[2].diffs, S1, S2)

C3_Witness ==
    /\ rdiff.some
    /\ route = get_hello_flag
    /\ request = req_hello_flag
    /\ rdiff.v.query[2].tag = "Diff"

\* C5: RoutingDiff::from never fails, whatever the route's query segments and
\* whether the request's query is absent, empty or holds items.
C5_FromNeverFails == pc # "panicked"

\* edit distance of two texts
Distance(a, b) == Len(a) + Len(b) - 2 * LcsLen(a, b, 1, 1)

\* position of the first request item at minimum distance from the literal
Closest(items, L) ==
    CHOOSE k \in 1..Len(items) :
        /\ \A j \in 1..Len(items) : Distance(items[k].raw, L) <= Distance(items[j].raw, L)
        /\ \A j \in 1..(k - 1) : Distance(items[j].raw, L) > Distance(items[k].raw, L)

\* C10: for a Static route query segment L and a request with at least one
\* item: an item whose raw text equals L gives StaticMatch and is consumed (no
\* later Multi segment lists it); otherwise the entry is the edit script of the
\* item at minimum edit distance from L, the first such item in request order.
C10_StaticClosest ==
    (rdiff.some /\ route.query_segments.some /\ request.query_items.some
       /\ request.query_items.v # <<>>) =>
        LET rs == route.query_segments.v
            items == request.query_items.v
            qd == rdiff.v.query
        IN \A i \in 1..Len(rs) :
              rs[i].kind = "Static" =>
                 IF \E k \in 1..Len(items) : items[k].raw = rs[i].string
                 THEN /\ qd[i] = StaticMatch(rs[i].string)
                      /\ \A j \in (i + 1)..Len(rs) :
                            rs[j].kind = "Multi" =>
                               \A v \in 1..Len(qd[j].values) :
                                  qd[j].values[v] # rs[i].string
                 ELSE /\ qd[i].tag = "Diff"
                      /\ IsScript(qd[i].diffs, items[Closest(items, rs[i].string)].raw,
                                  rs[i].string)

\* a Static segment without exact match and two different items at the same
\* minimum distance
C10_Witness ==
    /\ rdiff.some
    /\ route.query_segments.some
    /\ request.query_items.some
    /\ Len(request.query_items.v) = 2
    /\ \E i \in 1..Len(route.query_segments.v) :
          LET L == route.query_segments.v[i].string
              items == request.query_items.v
          IN /\ route.query_segments.v[i].kind = "Static"
             /\ rdiff.v.query[i].tag = "Diff"
             /\ items[1].raw # items[2].raw
             /\ Distance(items[1].raw, L) = Distance(items[2].raw, L)

\* ------------------------------------------------ properties: media types
\* the comparison of one part of the two media types: equal ignoring case,
\* else wildcard, else edit script
PartCompared(m, r, q) ==
    IF UncasedEq(r, q) THEN m = TrueStatic(r)
    ELSE IF r = <<"*">> \/ q = <<"*">> THEN m = TrueDynamic(r, q)
    ELSE m.tag = "False" /\ IsScript(m.diffs, q, r)

\* C4: media_type_diff is a total four-way classification: neither side has
\* a media type: None; only the request: Unexpected; only the route: Missing;
\* both: top and sub compared independently, TrueStatic when equal ignoring
\* case, else TrueDynamic when either is "*", else an edit script.
C4_MediaFourWay ==
    rdiff.some =>
        LET md == rdiff.v.media_type
        IN CASE ~route.format.some /\ ~request.format.some -> md.tag = "None"
             [] ~route.format.some /\ request.format.some -> md.tag = "Unexpected"
             [] route.format.some /\ ~request.format.some -> md.tag = "Missing"
             [] route.format.some /\ request.format.some ->
                  /\ md.tag = "IsMatch"
                  /\ PartCompared(md.top, route.format.v.top, request.format.v.top)
                  /\ PartCompared(md.sub, route.format.v.sub, request.format.v.sub)

C4_Witness ==
    /\ rdiff.some
    /\ route.format.some
    /\ request.format.some
    /\ route.format.v.top # request.format.v.top
    /\ rdiff.v.media_type.top.tag = "TrueStatic"
    /\ rdiff.v.media_type.sub.tag = "False"

\* ------------------------------------------------------- RouteHint fairing
\* rocket.routes() of the hosts modelled, and the requests they receive
HostRouteLists == {<<>>, <<get_hello_flag>>, <<get_hello, get_hello_flag>>}
HintRequests == {req_hello_world, req_hello_flag, req_hello_empty_query}

\* RouteHint::new() attached to a host: the Vec is empty, the Mutex free
InitHint ==
    /\ rocket_routes \in HostRouteLists
    /\ routes = <<>>
    /\ lock = Free
    /\ attach_pc = "loop"
    /\ attach_i = 1
    /\ hpc = [h \in Handlers |-> "idle"]
    /\ hidx = [h \in Handlers |-> 1]
    /\ hreq = [h \in Handlers |-> None]
    /\ hdiff = [h \in Handlers |-> None]
    /\ hout = [h \in Handlers |-> None]
    /\ route = get_index
    /\ request = req_hello_world
    /\ rdiff = None
    /\ out = None
    /\ pc = "off"

\* on_attach, one iteration: self.routes.lock().await
attach_lock ==
    /\ attach_pc = "loop"
    /\ attach_i <= Len(rocket_routes)
    /\ lock = Free
    /\ lock' = HeldByAttach
    /\ attach_pc' = "push"
    /\ UNCHANGED <<rocket_routes, routes, attach_i, hpc, hidx, hreq, hdiff, hout>>
    /\ UNCHANGED diff_vars

\* on_attach, one iteration: .push(route.clone()); the guard is dropped at
\* the end of the statement
attach_push ==
    /\ attach_pc = "push"
    /\ routes' = Append(routes, rocket_routes[attach_i])
    /\ lock' = Free
    /\ attach_i' = attach_i + 1
    /\ attach_pc' = "loop"
    /\ UNCHANGED <<rocket_routes, hpc, hidx, hreq, hdiff, hout>>
    /\ UNCHANGED diff_vars

\* on_attach: the loop is over, Ok(rocket)
attach_done ==
    /\ attach_pc = "loop"
    /\ attach_i > Len(rocket_routes)
    /\ attach_pc' = "done"
    /\ UNCHANGED <<rocket_routes, routes, lock, attach_i, hpc, hidx, hreq, hdiff, hout>>
    /\ UNCHANGED diff_vars

\* on_request: a request arrives at a launched host; the header is written
req_start(h) ==
    /\ attach_pc = "done"
    /\ hpc[h] = "idle"
    /\ \E r \in HintRequests : hreq' = [hreq EXCEPT ![h] = Some(r)]
    /\ hpc' = [hpc EXCEPT ![h] = "lock"]
    /\ UNCHANGED <<rocket_routes, routes, lock, attach_pc, attach_i, hidx, hdiff, hout>>
    /\ UNCHANGED diff_vars

\* on_request: self.routes.lock().await; the guard lives as long as the loop
req_lock(h) ==
    /\ hpc[h] = "lock"
    /\ lock = Free
    /\ lock' = HeldBy(h)
    /\ hidx' = [hidx EXCEPT ![h] = 1]
    /\ hpc' = [hpc EXCEPT ![h] = "loop"]
    /\ UNCHANGED <<rocket_routes, routes, attach_pc, attach_i, hreq, hdiff, hout>>
    /\ UNCHANGED diff_vars

\* on_request, loop body: RoutingDiff::from(route, request); a failed expect
\* unwinds the handler and drops the guard
req_from(h) ==
    /\ hpc[h] = "loop"
    /\ hidx[h] <= Len(routes)
    /\ IF from_panics(routes[hidx[h]], hreq[h].v)
       THEN /\ hpc' = [hpc EXCEPT ![h] = "panicked"]
            /\ lock' = Free
            /\ hdiff' = hdiff
       ELSE /\ hpc' = [hpc EXCEPT ![h] = "print"]
            /\ lock' = lock
            /\ hdiff' = [hdiff EXCEPT ![h] = Some(RoutingDiff_from(routes[hidx[h]], hreq[h].v))]
    /\ UNCHANGED <<rocket_routes, routes, attach_pc, attach_i, hidx, hreq, hout>>
    /\ UNCHANGED diff_vars

\* on_request, loop body: routing_diff.print(); println!()
req_print(h) ==
    /\ hpc[h] = "print"
    /\ hout' = [hout EXCEPT ![h] = Some(print(hdiff[h].v))]
    /\ hidx' = [hidx EXCEPT ![h] = hidx[h] + 1]
    /\ hpc' = [hpc EXCEPT ![h] = "loop"]
    /\ UNCHANGED <<rocket_routes, routes, lock, attach_pc, attach_i, hreq, hdiff>>
    /\ UNCHANGED diff_vars

\* a loop that takes the routes out of the Vec (drain(..) for iter())
req_end_drain(h) ==
    /\ hpc[h] = "loop"
    /\ hidx[h] > Len(routes)
    /\ lock' = Free
    /\ routes' = <<>>
    /\ hpc' = [hpc EXCEPT ![h] = "done"]
    /\ UNCHANGED <<rocket_routes, attach_pc, attach_i, hidx, hreq, hdiff, hout>>
    /\ UNCHANGED diff_vars

\* on_request: the iterator is exhausted, the guard is dropped
req_end(h) ==
    /\ hpc[h] = "loop"
    /\ hidx[h] > Len(routes)
    /\ lock' = Free
    /\ hpc' = [hpc EXCEPT ![h] = "done"]
    /\ UNCHANGED <<rocket_routes, routes, attach_pc, attach_i, hidx, hreq, hdiff, hout>>
    /\ UNCHANGED diff_vars

on_attach == attach_lock \/ attach_push \/ attach_done
on_request(h) == req_start(h) \/ req_lock(h) \/ req_from(h) \/ req_print(h) \/ req_end(h)

NextHint == on_attach \/ \E h \in Handlers : on_request(h)

SpecHint == InitHint /\ [][NextHint]_vars

Init == InitPath \/ InitQuery \/ InitMedia \/ InitHint
Next == NextDiff \/ NextHint
Spec == Init /\ [][Next]_vars

\* ------------------------------------------------ properties: the fairing
\* C6: a handler that is writing a route's diff does not hold the lock on
\* RouteHint.routes.
C6_NoOutputUnderLock == \A h \in Handlers : hpc[h] = "print" => lock # HeldBy(h)

\* C7: the registry is changed only by on_attach, which appends the host's
\* routes in order; once on_attach has completed no step changes it, so it
\* stays equal to the host's routes for every request.
C7_RegistryStable ==
    /\ [](attach_pc = "done" => routes = rocket_routes)
    /\ [][/\ routes' # routes =>
               (attach_pc = "push" /\ routes' = Append(routes, rocket_routes[attach_i]))
          /\ attach_pc = "done" => routes' = routes]_vars

\* a request was handled to its end after startup while another is under way
C7_Witness ==
    /\ attach_pc = "done"
    /\ Len(routes) = 2
    /\ \E h, g \in Handlers :
          /\ hpc[h] = "done"
          /\ hout[h].some
          /\ hpc[g] = "print"

\* --------------------------------------------------- properties: rendering
\* the characters of a rendered line painted in the colour
Highlighted(line, color) ==
    LET IsIt(x) == x.hl = color IN Strip(SelectSeq(line, IsIt))

\* the text of the entries of one kind of an edit script
ScriptPart(ds, op) ==
    Flatten([k \in 1..Len(ds) |-> IF ds[k].op = op THEN ds[k].s ELSE <<>>])

\* text of a segment diff list that the route expects and the request lacks
SegsLacking(sd) ==
    Flatten([k \in 1..Len(sd) |->
        CASE sd[k].tag = "Missing" -> sd[k].s
          [] sd[k].tag = "Diff" -> ScriptPart(sd[k].diffs, "Add")
          [] OTHER -> <<>>])

\* text of a segment diff list that the request has and the route does not expect
SegsSurplus(sd) ==
    Flatten([k \in 1..Len(sd) |->
        CASE sd[k].tag = "Unexpected" -> sd[k].s
          [] sd[k].tag = "Diff" -> ScriptPart(sd[k].diffs, "Rem")
          [] OTHER -> <<>>])

MediaPartScript(m, op) == IF m.tag = "False" THEN ScriptPart(m.diffs, op) ELSE <<>>

MediaLacking(md) ==
    CASE md.tag = "Missing" -> md.s
      [] md.tag = "IsMatch" -> MediaPartScript(md.top, "Add") \o MediaPartScript(md.sub, "Add")
      [] OTHER -> <<>>

MediaSurplus(md) ==
    CASE md.tag = "Unexpected" -> md.s
      [] md.tag = "IsMatch" -> MediaPartScript(md.top, "Rem") \o MediaPartScript(md.sub, "Rem")
      [] OTHER -> <<>>

\* C8: the route line shows in the addition colour all text the route expects
\* and the request lacks (Missing and Add entries of path, query and media
\* type, sub part included), the request line shows in the removal colour all
\* text the request has and the route does not expect (Unexpected and Rem
\* entries of path, query and media type); everything else is uncoloured.
C8_ColouringPolicy ==
    out.some =>
        LET d == rdiff.v
        IN /\ Highlighted(out.v.route_line, green) =
                (IF d.method.tag = "Change" THEN MethodText(route.method) ELSE <<>>)
                \o SegsLacking(d.path_diff) \o SegsLacking(d.query)
                \o MediaLacking(d.media_type)
           /\ Highlighted(out.v.request_line, red) =
                (IF d.method.tag = "Change" THEN MethodText(request.method) ELSE <<>>)
                \o SegsSurplus(d.path_diff) \o SegsSurplus(d.query)
                \o MediaSurplus(d.media_type)
           /\ Highlighted(out.v.route_line, red) = <<>>
           /\ Highlighted(out.v.request_line, green) = <<>>

\* the request's path and query as received
RequestText(q) ==
    (IF q.segments = <<>> THEN <<"/">>
     ELSE Flatten([k \in 1..Len(q.segments) |-> <<"/">> \o q.segments[k]]))
    \o (IF q.query_items.some
        THEN Flatten([k \in 1..Len(q.query_items.v) |->
                        (IF k = 1 THEN <<"?">> ELSE <<"&">>) \o q.query_items.v[k].raw])
        ELSE <<>>)

\* the route's path, query and media type as declared
RouteText(r) ==
    (IF r.path_segments = <<>> THEN <<"/">>
     ELSE Flatten([k \in 1..Len(r.path_segments) |-> <<"/">> \o r.path_segments[k].string]))
    \o (IF r.query_segments.some
        THEN Flatten([k \in 1..Len(r.query_segments.v) |->
                        (IF k = 1 THEN <<"?">> ELSE <<"&">>) \o r.query_segments.v[k].string])
        ELSE <<>>)
    \o <<" ", " ", " ">>
    \o (IF r.format.some THEN MediaTypeText(r.format.v) ELSE <<>>)

\* C9: with the colouring removed, the request line is the request's path
\* (each segment after a "/", a single "/" when there is none) followed by
\* every request query item once, in request order, after "?" and "&"; the
\* route line is the route's path segments, query segments and media type
\* (top and sub) in route order.
C9_LinesReconstruct ==
    (out.some /\ MultiIsLast(route)) =>
        /\ Strip(out.v.request_line) =
              MethodText(request.method) \o <<":", " ">> \o RequestText(request)
        /\ Strip(out.v.route_line) =
              MethodText(route.method) \o <<":", " ">> \o RouteText(route)

\* ------------------------------------------- properties: query Multi
\* position of the request item a Static or Single segment consumes, 0 if none
ConsumedBy(seg, items) ==
    find([k \in 1..Len(items) |->
            IF seg.kind = "Static" THEN items[k].raw = seg.string
            ELSE items[k].key = seg.name])

\* positions of the request items consumed by some Static or Single segment
ConsumedPositions(rs, items) ==
    {ConsumedBy(rs[i], items) : i \in {k \in 1..Len(rs) : rs[k].kind # "Multi"}} \ {0}

\* raw texts of the request items at the positions not consumed, in request order
RECURSIVE Unconsumed(_, _, _)
Unconsumed(items, consumed, k) ==
    IF k > Len(items) THEN <<>>
    ELSE (IF k \in consumed THEN <<>> ELSE <<items[k].raw>>)
         \o Unconsumed(items, consumed, k + 1)

\* C11: a Multi route query segment yields one MultiMatch listing exactly the
\* request items, in request order and with their multiplicity, that no Static
\* or Single segment of the route consumes, wherever those segments stand.
C11_MultiCollectsUnconsumed ==
    (rdiff.some /\ route.query_segments.some /\ request.query_items.some) =>
        LET rs == route.query_segments.v
            items == request.query_items.v
            qd == rdiff.v.query
        IN \A j \in 1..Len(rs) :
              rs[j].kind = "Multi" =>
                 qd[j] = MultiMatch(rs[j].string,
                                    Unconsumed(items, ConsumedPositions(rs, items), 1))

====
